---- MODULE Spec2Model ----
(***************************************************************************)
(* simple-registry-api: the bearer-token client (BaseClientV2) and the     *)
(* lazy entity model (Registry -> Repository -> Tag -> Manifest), run      *)
(* against a Docker Registry v2 remote.                                    *)
(*                                                                         *)
(* Optional values (Python None / a value) are sequences: <<>> is None and *)
(* <<x>> holds x.  A scope string 'repository:%s:*' % name is the tuple    *)
(* <<"repository", name, "*">>.                                            *)
(***************************************************************************)
EXTENDS Integers, Sequences, FiniteSets, TLC

\* ------------------------------------------------------------- bounds
\* Number of steps in one run: caller operations, and pushes by other clients
\* between them.
MaxSteps == 3
\* Number of pushes by other clients between the requests of one caller
\* operation.
MaxPushes == 2

\* ----------------------------------------------------------- universe
Repos == {"app", "lib"}
TagNames == {"v1", "v2"}
Digests == {"sha256:abc", "sha256:def"}
\* A key no catalog and no tag list ever holds.
Missing == "missing"

None == <<>>
Some(x) == <<x>>

\* The threads that share the Registry when it is used concurrently.
Threads == {1, 2}

\* ------------------------------------------------------------- state
VARIABLES
    v2,             \* remote: whether the registry serves the v2 API at all
    converts,       \* remote: whether manifest bodies are served converted, so
                    \* that their Docker-Content-Digest is not the hash of the body
    closed,         \* whether session.close() was called on the client's session
    token_required, \* auth.token_required
    token,          \* auth.token: None or Some(scope the token was minted for)
    scope,          \* auth.scope: scope recorded for the held token
    desired_scope,  \* auth.desired_scope
    rcat,           \* remote: repository names in the catalog
    rtags,          \* remote: rtags[r][t] = None or Some(digest)
    rman,           \* remote: manifests stored, as <<repo, digest>>
    rblobs,         \* remote: blobs stored, as <<repo, blob digest>>
    repositories,   \* Registry.__repositories: None or Some(mapping object)
    loose,          \* a Manifest the caller built itself: None or Some(Manifest)
    log,            \* the I/O of the latest caller operation, in order
    result,         \* what the latest caller operation returned or raised
    nSteps,         \* steps so far
    pc,             \* per thread: where it is in the accessor it runs
    frame,          \* per thread: the accessor it runs and its local variables
    pending         \* the caller operation that is between two of its requests,
                    \* the replies it has had so far, and the number of pushes
                    \* by other clients since it began

vars == <<v2, converts, closed, token_required, token, scope, desired_scope, rcat,
          rtags, rman, rblobs, repositories, loose, log, result, nSteps, pc, frame,
          pending>>

\* ------------------------------------------------------ remote registry
CATALOG_SCOPE == <<"registry", "catalog", "*">>
RepoScope(name) == <<"repository", name, "*">>

\* The config blob a manifest refers to, and the manifest document.
CfgOf(d) == IF d = "sha256:abc" THEN "sha256:cfg-abc" ELSE "sha256:cfg-def"
schema_blob == "application/vnd.docker.container.image.v1+json"
ContentOf(d) == [config |-> [digest |-> CfgOf(d), mediaType |-> schema_blob]]
\* The same manifest as a converting registry serves it: another document.
schema_converted == "application/vnd.docker.container.image.v1+json;converted"
ConvertedOf(d) == [config |-> [digest |-> CfgOf(d), mediaType |-> schema_converted]]
BodyOf(d) == IF converts THEN ConvertedOf(d) ELSE ContentOf(d)
\* A string is held as its parts between '.' characters.  The strings of the
\* form '%Y-%m-%dT%H:%M:%S', the only ones datetime.strptime accepts:
Timestamps == {"2019-01-01T00:00:00", "2019-01-02T00:00:00"}
StampOf(cfg) == IF cfg = "sha256:cfg-abc" THEN "2019-01-01T00:00:00"
                ELSE "2019-01-02T00:00:00"
\* A config blob's 'created' string.  An image built at a fraction of a second
\* carries seconds, '.', fraction and zone; one built on a whole second carries
\* no '.', and the zone follows the seconds directly (RFC 3339).  The whole-second
\* image of this registry is sha256:def of repository lib.
CreatedOf(name, cfg) ==
    IF name = "lib" /\ cfg = "sha256:cfg-def" THEN <<"2019-01-02T00:00:00Z">>
    ELSE <<StampOf(cfg), "123456789Z">>
BlobOf(name, cfg) == [created |-> CreatedOf(name, cfg)]

\* The scope a registry that checks bearer tokens wants for a route.
RouteScope(route, name) ==
    IF route \in {"/v2/", "/v2/_catalog"} THEN CATALOG_SCOPE ELSE RepoScope(name)

\* The manifest digest a reference (tag or digest) of repository name resolves to.
Resolve(w, name, ref) ==
    IF name \notin Repos THEN None
    ELSE IF ref \in TagNames THEN
        (IF w.rtags[name][ref] /= None /\ <<name, w.rtags[name][ref][1]>> \in w.rman
         THEN w.rtags[name][ref] ELSE None)
    ELSE IF ref \in Digests /\ <<name, ref>> \in w.rman THEN Some(ref)
    ELSE None

NoReply == [status |-> 0, body |-> None, digest |-> None]
Reply(status, body, digest) == [status |-> status, body |-> body, digest |-> digest]

\* The registry's answer to a request that reached it, and the remote state after.
Serve(w, method, route, name, ref, bearer) ==
    LET deny == token_required /\ bearer /= Some(RouteScope(route, name))
        r == Resolve(w, name, ref)
    IN  IF ~v2 THEN [w |-> w, rsp |-> Reply(404, None, None)]
        ELSE IF deny THEN [w |-> w, rsp |-> Reply(401, None, None)]
        ELSE IF route = "/v2/" THEN [w |-> w, rsp |-> Reply(200, None, None)]
        ELSE IF route = "/v2/_catalog" THEN
            [w |-> w, rsp |-> Reply(200, Some([repositories |-> w.rcat]), None)]
        ELSE IF route = "tags/list" THEN
            IF name \in w.rcat
            THEN [w |-> w,
                  rsp |-> Reply(200, Some([tags |-> {t \in TagNames :
                                               w.rtags[name][t] /= None}]), None)]
            ELSE [w |-> w, rsp |-> Reply(404, None, None)]
        ELSE IF route = "manifests" /\ method = "GET" THEN
            IF r /= None
            THEN [w |-> w, rsp |-> Reply(200, Some(BodyOf(r[1])), r)]
            ELSE [w |-> w, rsp |-> Reply(404, None, None)]
        ELSE IF route = "manifests" /\ method = "DELETE" THEN
            IF ref \in Digests /\ r /= None
            THEN [w |-> [w EXCEPT
                           !.rman = @ \ {<<name, ref>>},
                           !.rtags[name] = [t \in TagNames |->
                               IF @[t] = Some(ref) THEN None ELSE @[t]]],
                  rsp |-> Reply(202, None, None)]
            ELSE [w |-> w, rsp |-> Reply(404, None, None)]
        ELSE IF route = "blobs" /\ method = "GET" THEN
            IF <<name, ref>> \in w.rblobs
            THEN [w |-> w, rsp |-> Reply(200, Some(BlobOf(name, ref)), None)]
            ELSE [w |-> w, rsp |-> Reply(404, None, None)]
        ELSE IF route = "blobs" /\ method = "DELETE" THEN
            IF <<name, ref>> \in w.rblobs
            THEN [w |-> [w EXCEPT !.rblobs = @ \ {<<name, ref>>}],
                  rsp |-> Reply(202, None, None)]
            ELSE [w |-> w, rsp |-> Reply(404, None, None)]
        ELSE [w |-> w, rsp |-> Reply(404, None, None)]

\* ------------------------------------------------------------- events
RenewEvent(sc, ok) ==
    [kind |-> "renew", method |-> "GET", route |-> "token", name |-> "",
     ref |-> "", bearer |-> None, scope |-> sc, status |-> IF ok THEN 200 ELSE 401,
     digest |-> None]
\* A request and the reply to it: its status and its Docker-Content-Digest header.
ReqEvent(method, route, name, ref, bearer, rsp) ==
    [kind |-> "req", method |-> method, route |-> route, name |-> name,
     ref |-> ref, bearer |-> bearer, scope |-> None, status |-> rsp.status,
     digest |-> rsp.digest]

\* ------------------------------------------------- AuthorizationService
\* get_new_token: ask the authorization endpoint for a token for the desired
\* scope; on success store it with the scope it was minted for, on failure raise.
GetNewToken(w, ok) ==
    IF ok
    THEN [w EXCEPT !.token = Some(w.desired_scope), !.scope = w.desired_scope,
                   !.log = Append(@, RenewEvent(w.desired_scope, TRUE))]
    ELSE [w EXCEPT !.log = Append(@, RenewEvent(w.desired_scope, FALSE))]

\* ---------------------------------------------------------- BaseClientV2
\* A client that asks for a new token on every call.
NeedsRenewal_always(w) == token_required

\* A client that renews only when it holds no token.
NeedsRenewal_noscope(w) == token_required /\ w.token = None

\* Whether _http_response renews the token before sending.
NeedsRenewal(w) ==
    token_required /\ (w.token = None \/ w.desired_scope /= w.scope)

Ret(w, exc, val) == [w |-> w, exc |-> exc, val |-> val]

\* A caller operation is a sequence of round trips, and the registry can change
\* between any two of them.  One step of the model takes an
\* operation from one reply to its next request: it runs the operation's code from
\* its start with the replies it has had so far (w.replay), sends the one request
\* that follows them (w.fresh, its reply), and stops at the request after that
\* (w.paused).  What is kept of a call: its number, whether its token renewal
\* succeeded, its request and its reply.
Answer(w, auth_ok, req, rsp) == [n |-> w.n, auth_ok |-> auth_ok, req |-> req, rsp |-> rsp]
Replayed(w) == w.n <= Len(w.replay)
Waiting(w) == w.fresh /= None
Pause(w) == [w EXCEPT !.paused = TRUE]
Answered(w, auth_ok, req, rsp) ==
    IF Replayed(w) THEN w ELSE [w EXCEPT !.fresh = Some(Answer(w, auth_ok, req, rsp))]

\* Whether the token renewal of the call succeeds: inj = <<k, "auth">> makes the
\* renewal of the k-th client call of the operation fail.
AuthOk(w, inj) ==
    IF Replayed(w) THEN w.replay[w.n].auth_ok ELSE inj /= <<w.n, "auth">>

\* Sequencing: the value of K at x, with x evaluated once (x = ...; then K).
Bind(x, K(_)) == CHOOSE y \in {K(v) : v \in {x}} : TRUE

\* The request on the wire and its reply: inj = <<k, kind>> makes the request of
\* the k-th client call of the operation fail, no reply coming (kind "http",
\* status 0) or the registry answering 500 (kind "500").
Exchange(w, method, route, name, ref, bearer, inj) ==
    IF Replayed(w) THEN [w |-> w, rsp |-> w.replay[w.n].rsp]
    ELSE IF inj = <<w.n, "http">> THEN [w |-> w, rsp |-> NoReply]
    ELSE IF inj = <<w.n, "500">> THEN [w |-> w, rsp |-> Reply(500, None, None)]
    ELSE Serve(w, method, route, name, ref, bearer)

\* An _http_response that asks for the token a second time when the renewal failed.
HttpResponse_retry(w0, method, route, name, ref, inj) ==
    IF Waiting(w0) THEN Ret(Pause(w0), "Paused", NoReply)
    ELSE
    Bind([w0 EXCEPT !.n = @ + 1], LAMBDA w :
      Bind(NeedsRenewal(w), LAMBDA renew :
        Bind(IF renew THEN GetNewToken(w, AuthOk(w, inj)) ELSE w, LAMBDA w1 :
          IF renew /\ ~AuthOk(w, inj)
          THEN Ret(Answered(GetNewToken(w1, FALSE), FALSE,
                            <<method, route, name, ref>>, NoReply),
                   "AuthError", NoReply)
          ELSE Bind(IF token_required THEN w1.token ELSE None, LAMBDA bearer :
                 Bind(Exchange(w1, method, route, name, ref, bearer, inj), LAMBDA srv :
                   Ret(Answered([srv.w EXCEPT !.log = Append(@,
                                   ReqEvent(method, route, name, ref, bearer, srv.rsp))],
                                TRUE, <<method, route, name, ref>>, srv.rsp),
                       IF srv.rsp.status \in {200, 202} THEN "none" ELSE "HTTPError",
                       srv.rsp))))))

\* BaseClientV2._http_response: renew the token when none is held or the held one
\* is for another scope, send the request with the token, raise on a failure.
HttpResponse(w0, method, route, name, ref, inj) ==
    IF Waiting(w0) THEN Ret(Pause(w0), "Paused", NoReply)
    ELSE
    Bind([w0 EXCEPT !.n = @ + 1], LAMBDA w :
      Bind(NeedsRenewal(w), LAMBDA renew :
        Bind(IF renew THEN GetNewToken(w, AuthOk(w, inj)) ELSE w, LAMBDA w1 :
          IF renew /\ ~AuthOk(w, inj)
          THEN Ret(Answered(w1, FALSE, <<method, route, name, ref>>, NoReply),
                   "AuthError", NoReply)
          ELSE Bind(IF token_required THEN w1.token ELSE None, LAMBDA bearer :
                 Bind(Exchange(w1, method, route, name, ref, bearer, inj), LAMBDA srv :
                   Ret(Answered([srv.w EXCEPT !.log = Append(@,
                                   ReqEvent(method, route, name, ref, bearer, srv.rsp))],
                                TRUE, <<method, route, name, ref>>, srv.rsp),
                       IF srv.rsp.status \in {200, 202} THEN "none" ELSE "HTTPError",
                       srv.rsp))))))

\* CommonBaseClient._http_response: the request without any token handling; a
\* failure closes the session before it is raised again.  BaseClientV2 overrides
\* it with HttpResponse, so no BaseClientV2 operation runs this one.
Common_http_response(w0, method, route, name, ref, inj) ==
    Bind([w0 EXCEPT !.n = @ + 1], LAMBDA w :
      Bind(Exchange(w, method, route, name, ref, None, inj), LAMBDA srv :
        Bind([srv.w EXCEPT !.log = Append(@,
                ReqEvent(method, route, name, ref, None, srv.rsp))], LAMBDA w1 :
          IF srv.rsp.status \in {200, 202} THEN Ret(w1, "none", srv.rsp)
          ELSE Ret([w1 EXCEPT !.closed = TRUE], "HTTPError", srv.rsp))))

SetScope(w, sc) == [w EXCEPT !.desired_scope = sc]

check_status(w, inj) ==
    HttpResponse(SetScope(w, CATALOG_SCOPE), "GET", "/v2/", "", "", inj)

catalog(w, inj) ==
    HttpResponse(SetScope(w, CATALOG_SCOPE), "GET", "/v2/_catalog", "", "", inj)

get_repository_tags(w, name, inj) ==
    HttpResponse(SetScope(w, RepoScope(name)), "GET", "tags/list", name, "", inj)

get_manifest(w, name, reference, inj) ==
    HttpResponse(SetScope(w, RepoScope(name)), "GET", "manifests", name, reference, inj)

delete_manifest(w, name, digest, inj) ==
    HttpResponse(SetScope(w, RepoScope(name)), "DELETE", "manifests", name, digest, inj)

get_blob(w, name, digest, inj) ==
    HttpResponse(SetScope(w, RepoScope(name)), "GET", "blobs", name, digest, inj)

delete_blob(w, name, digest, inj) ==
    HttpResponse(SetScope(w, RepoScope(name)), "DELETE", "blobs", name, digest, inj)

\* The digest a client computes from a manifest document: the digest the manifest
\* is stored under when the document is served as stored, another one when not.
DigestOfContent(content) ==
    IF content = Some(ContentOf("sha256:abc")) THEN "sha256:abc"
    ELSE IF content = Some(ContentOf("sha256:def")) THEN "sha256:def"
    ELSE "sha256:recomputed"

\* A get_manifest_and_digest that computes the digest from the content.
get_manifest_and_digest_fromcontent(w, name, reference, inj) ==
    Bind(get_manifest(w, name, reference, inj), LAMBDA m :
        IF m.exc /= "none" THEN Ret(m.w, m.exc, None)
        ELSE Ret(m.w, "none", [content |-> m.val.body,
                               digest |-> DigestOfContent(m.val.body)]))

get_manifest_and_digest(w, name, reference, inj) ==
    Bind(get_manifest(w, name, reference, inj), LAMBDA m :
        IF m.exc /= "none" THEN Ret(m.w, m.exc, None)
        ELSE Ret(m.w, "none", [content |-> m.val.body, digest |-> m.val.digest[1]]))

\* ------------------------------------------------------------- Manifest
\* Object identity.  An object is named by the field it was stored into and the
\* ordinal of that store: two stores into one field are two objects.
Gen(field) == IF field = None THEN 1 ELSE field[1].id[Len(field[1].id)] + 1

\* Manifest.__init__
NewManifestObj(id, repo, digest, content) ==
    [id |-> id, repo |-> repo, digest |-> digest, content |-> content, age |-> None]

\* Where a Manifest lives: <<"tag", repo, tag>> (Tag._manifest of a cached Tag)
\* or <<"loose">> (held by the caller).
TagAt(w, r, t) == w.repositories[1].repos[r].tags[1].map[t]
GetMan(w, loc) ==
    IF loc[1] = "loose" THEN w.loose[1] ELSE TagAt(w, loc[2], loc[3]).manifest[1]
PutMan(w, loc, m) ==
    IF loc[1] = "loose" THEN [w EXCEPT !.loose = Some(m)]
    ELSE [w EXCEPT !.repositories = Some([@[1] EXCEPT !.repos[loc[2]].tags =
             Some([@[1] EXCEPT !.map[loc[3]].manifest = Some(m)])])]

\* A Manifest.content that caches an empty document when its fetch fails.
Manifest_content_poison(w, loc, inj) ==
    IF GetMan(w, loc).content /= None THEN Ret(w, "none", GetMan(w, loc).content)
    ELSE Bind(get_manifest_and_digest(w, GetMan(w, loc).repo, GetMan(w, loc).digest, inj),
              LAMBDA c :
        IF c.exc /= "none"
        THEN Ret(PutMan(c.w, loc, [GetMan(c.w, loc) EXCEPT
                                     !.content = Some([config |-> None])]), c.exc, None)
        ELSE Ret(PutMan(c.w, loc, [GetMan(c.w, loc) EXCEPT !.content = c.val.content]),
                 "none", c.val.content))

\* Manifest.content
Manifest_content(w, loc, inj) ==
    IF GetMan(w, loc).content /= None THEN Ret(w, "none", GetMan(w, loc).content)
    ELSE Bind(get_manifest_and_digest(w, GetMan(w, loc).repo, GetMan(w, loc).digest, inj),
              LAMBDA c :
        IF c.exc /= "none" THEN Ret(c.w, c.exc, None)
        ELSE Ret(PutMan(c.w, loc, [GetMan(c.w, loc) EXCEPT !.content = c.val.content]),
                 "none", c.val.content))

\* blob['created'].split('.')[0], then datetime.strptime: a datetime, or
\* ValueError when the part before the first '.' is not exactly a timestamp.
ParseAge(created) ==
    IF created[1] \in Timestamps
    THEN [exc |-> "none", val |-> Some([datetime |-> created[1]])]
    ELSE [exc |-> "ValueError", val |-> None]

\* Manifest.age
Manifest_age(w, loc, inj) ==
    IF GetMan(w, loc).age /= None THEN Ret(w, "none", GetMan(w, loc).age)
    ELSE Bind(Manifest_content(w, loc, inj), LAMBDA c :
        IF c.exc /= "none" THEN Ret(c.w, c.exc, None)
        ELSE Bind(get_blob(c.w, GetMan(c.w, loc).repo, c.val[1].config.digest, inj),
                  LAMBDA b :
            IF b.exc /= "none" THEN Ret(b.w, b.exc, None)
            ELSE Bind(ParseAge(b.val.body[1].created), LAMBDA age :
                IF age.exc /= "none" THEN Ret(b.w, age.exc, None)
                ELSE Ret(PutMan(b.w, loc, [GetMan(b.w, loc) EXCEPT !.age = age.val]),
                         "none", age.val))))

\* Manifest.delete
Manifest_delete(w, m, inj) ==
    Bind(delete_manifest(w, m.repo, m.digest, inj), LAMBDA d : Ret(d.w, d.exc, None))

\* repr(self) of a Manifest: 'Manifest(<repo>:<digest>)'; __hash__ hashes it.
ManifestRepr(m) == <<"Manifest", m.repo, m.digest>>

\* The place a Manifest object is held at.
LocOf(m) == IF m.id[2] = "loose" THEN <<"loose">> ELSE <<"tag", m.id[2], m.id[3]>>

\* Equality of Manifests by identity, as objects without __eq__ compare.
Manifest_eq_identity(w, la, lb, inj) ==
    Ret(w, "none", GetMan(w, la).id = GetMan(w, lb).id)

\* Manifest.__eq__ of the Manifest at la (self) with the Manifest at lb (other).
\* `and` stops at its first false operand; the third operand reads the content
\* property of self, then of other, and each fetches and caches a content that
\* is not there yet.
Manifest_eq(w, la, lb, inj) ==
    IF GetMan(w, la).digest /= GetMan(w, lb).digest THEN Ret(w, "none", FALSE)
    ELSE IF GetMan(w, la).repo /= GetMan(w, lb).repo THEN Ret(w, "none", FALSE)
    ELSE Bind(Manifest_content(w, la, inj), LAMBDA ca :
        IF ca.exc /= "none" THEN Ret(ca.w, ca.exc, None)
        ELSE Bind(Manifest_content(ca.w, lb, inj), LAMBDA cb :
            IF cb.exc /= "none" THEN Ret(cb.w, cb.exc, None)
            ELSE Ret(cb.w, "none", ca.val = cb.val)))

\* ------------------------------------------------------------------ Tag
\* The Manifest that Tag.manifest builds from a fetched content and digest.
FetchedManifest(w, r, t, c) ==
    NewManifestObj(<<"Manifest", r, t, Gen(TagAt(w, r, t).manifest)>>,
                   r, c.val.digest, c.val.content)

\* A Tag.manifest that fetches the manifest on every access.
Tag_manifest_refetch(w, r, t, inj) ==
    Bind(get_manifest_and_digest(w, r, t, inj), LAMBDA c :
        IF c.exc /= "none" THEN Ret(c.w, c.exc, None)
        ELSE Ret(PutMan(c.w, <<"tag", r, t>>, FetchedManifest(c.w, r, t, c)),
                 "none", FetchedManifest(c.w, r, t, c)))

\* Tag.manifest
Tag_manifest(w, r, t, inj) ==
    IF TagAt(w, r, t).manifest /= None THEN Ret(w, "none", TagAt(w, r, t).manifest[1])
    ELSE Bind(get_manifest_and_digest(w, r, t, inj), LAMBDA c :
        IF c.exc /= "none" THEN Ret(c.w, c.exc, None)
        ELSE Ret(PutMan(c.w, <<"tag", r, t>>, FetchedManifest(c.w, r, t, c)),
                 "none", FetchedManifest(c.w, r, t, c)))

\* A Tag.delete that forgets the tag's Manifest once it has deleted it.
Tag_delete_purge(w, r, t, inj) ==
    Bind(Tag_manifest(w, r, t, inj), LAMBDA m :
        IF m.exc /= "none" THEN Ret(m.w, m.exc, None)
        ELSE Bind(Manifest_delete(m.w, m.val, inj), LAMBDA d :
            Ret([d.w EXCEPT !.repositories = Some([@[1] EXCEPT !.repos[r].tags =
                    Some([@[1] EXCEPT !.map[t].manifest = None])])], d.exc, None)))

\* Tag.delete
Tag_delete(w, r, t, inj) ==
    Bind(Tag_manifest(w, r, t, inj), LAMBDA m :
        IF m.exc /= "none" THEN Ret(m.w, m.exc, None)
        ELSE Manifest_delete(m.w, m.val, inj))

\* ----------------------------------------------------------- Repository
\* The tag names of a tags/list reply, in the order the registry lists them.
TagOrder == <<"v1", "v2">>
RECURSIVE Listed(_, _)
Listed(s, order) ==
    IF order = <<>> THEN <<>>
    ELSE (IF Head(order) \in s THEN <<Head(order)>> ELSE <<>>) \o Listed(s, Tail(order))

\* The mapping Repository._tags builds from a tags/list reply.
TagMapping(w, r, c) ==
    [id |-> <<"tags", r, Gen(w.repositories[1].repos[r].tags)>>,
     keys |-> Listed(c.val.body[1].tags, TagOrder),
     map |-> [t \in c.val.body[1].tags |-> [manifest |-> None]]]
PutTags(w, r, obj) ==
    [w EXCEPT !.repositories = Some([@[1] EXCEPT !.repos[r].tags = Some(obj)])]

\* A Repository._tags that lists the tags on every access.
Repository__tags_refetch(w, r, inj) ==
    Bind(get_repository_tags(w, r, inj), LAMBDA c :
        IF c.exc /= "none" THEN Ret(c.w, c.exc, None)
        ELSE Ret(PutTags(c.w, r, TagMapping(c.w, r, c)), "none", TagMapping(c.w, r, c)))

\* Repository._tags
Repository__tags(w, r, inj) ==
    IF w.repositories[1].repos[r].tags /= None
    THEN Ret(w, "none", w.repositories[1].repos[r].tags[1])
    ELSE Bind(get_repository_tags(w, r, inj), LAMBDA c :
        IF c.exc /= "none" THEN Ret(c.w, c.exc, None)
        ELSE Ret(PutTags(c.w, r, TagMapping(c.w, r, c)), "none", TagMapping(c.w, r, c)))

\* A child object is one with the mapping that holds it: its identity is the
\* mapping's identity and its key.
ChildRef(mapping, key) == [kind |-> "child", of |-> mapping.id, key |-> key]
Default == [kind |-> "default"]

\* Repository.__getitem__
Repository_getitem(w, r, tag, inj) ==
    Bind(Repository__tags(w, r, inj), LAMBDA ts :
        IF ts.exc /= "none" THEN ts
        ELSE IF tag \notin DOMAIN ts.val.map THEN Ret(ts.w, "KeyError", None)
        ELSE Ret(ts.w, "none", ChildRef(ts.val, tag)))

\* Repository.get
Repository_get(w, r, tag, inj) ==
    Bind(Repository_getitem(w, r, tag, inj), LAMBDA g :
        IF g.exc = "KeyError" THEN Ret(g.w, "none", Default) ELSE g)

\* dict.values(): a new view object over the mapping, each time it is called;
\* the view is named by the caller operation that made it.
ValuesView(w, mapping) ==
    Ret(w, "none",
        [kind |-> "view", id |-> <<"view", w.op>>, of |-> mapping.id,
         keys |-> mapping.keys])

\* Repository.tags
Repository_tags(w, r, inj) ==
    Bind(Repository__tags(w, r, inj), LAMBDA ts :
        IF ts.exc /= "none" THEN ts ELSE ValuesView(ts.w, ts.val))

\* set.add from entry i on: m is compared with the entries of its hash, by
\* identity and then by entry == m, and joins the set when none is equal to it.
RECURSIVE SetAddFrom(_, _, _, _, _)
SetAddFrom(w, s, i, m, inj) ==
    IF i > Len(s) THEN Ret(w, "none", Append(s, m))
    ELSE IF ManifestRepr(s[i]) /= ManifestRepr(m) THEN SetAddFrom(w, s, i + 1, m, inj)
    ELSE IF s[i].id = m.id THEN Ret(w, "none", s)
    ELSE Bind(Manifest_eq(w, LocOf(s[i]), LocOf(m), inj), LAMBDA e :
        IF e.exc /= "none" THEN Ret(e.w, e.exc, None)
        ELSE IF e.val THEN Ret(e.w, "none", s)
        ELSE SetAddFrom(e.w, s, i + 1, m, inj))

\* set.add: a Manifest joins the set unless one with its hash and equal to it is in.
SetAdd(w, s, m, inj) == SetAddFrom(w, s, 1, m, inj)

\* {tag.manifest for tag in self.tags}: the tags in mapping order, acc the set so far.
RECURSIVE CollectManifests(_, _, _, _, _)
CollectManifests(w, r, ts, acc, inj) ==
    IF ts = <<>> THEN Ret(w, "none", acc)
    ELSE Bind(Tag_manifest(w, r, Head(ts), inj), LAMBDA m :
        IF m.exc /= "none" THEN Ret(m.w, m.exc, None)
        ELSE Bind(SetAdd(m.w, acc, m.val, inj), LAMBDA a :
            IF a.exc /= "none" THEN Ret(a.w, a.exc, None)
            ELSE CollectManifests(a.w, r, Tail(ts), a.val, inj)))

\* Repository.manifests
Repository_manifests(w, r, inj) ==
    Bind(Repository_tags(w, r, inj), LAMBDA ts :
        IF ts.exc /= "none" THEN ts
        ELSE CollectManifests(ts.w, r, ts.val.keys, <<>>, inj))

\* The order a Python set yields its elements in is not fixed: pri ranks the
\* positions of s, and the elements come out by ascending rank.
RECURSIVE Ordered(_, _, _)
Ordered(s, left, pri) ==
    IF left = {} THEN <<>>
    ELSE LET i == CHOOSE x \in left : \A y \in left : pri[x] <= pri[y]
         IN  <<s[i]>> \o Ordered(s, left \ {i}, pri)

\* A loop that stops after its first manifest.
DeleteEach_first(w, ms, inj) ==
    IF ms = <<>> THEN Ret(w, "none", None) ELSE Manifest_delete(w, Head(ms), inj)

\* A loop that goes on after a failed delete and raises the failure at the end.
RECURSIVE DeleteEach_continue(_, _, _)
DeleteEach_continue(w, ms, inj) ==
    IF ms = <<>> THEN Ret(w, "none", None)
    ELSE Bind(Manifest_delete(w, Head(ms), inj), LAMBDA d :
        Bind(DeleteEach_continue(d.w, Tail(ms), inj), LAMBDA rest :
            IF d.exc /= "none" THEN Ret(rest.w, d.exc, None) ELSE rest))

\* for manifest in ...: manifest.delete()
RECURSIVE DeleteEach(_, _, _)
DeleteEach(w, ms, inj) ==
    IF ms = <<>> THEN Ret(w, "none", None)
    ELSE Bind(Manifest_delete(w, Head(ms), inj), LAMBDA d :
        IF d.exc /= "none" THEN d ELSE DeleteEach(d.w, Tail(ms), inj))

\* A loop that deletes the manifest of each tag as soon as it has resolved it.
RECURSIVE DeleteAsResolved(_, _, _, _)
DeleteAsResolved(w, r, ts, inj) ==
    IF ts = <<>> THEN Ret(w, "none", None)
    ELSE Bind(Tag_manifest(w, r, Head(ts), inj), LAMBDA m :
        IF m.exc /= "none" THEN Ret(m.w, m.exc, None)
        ELSE Bind(Manifest_delete(m.w, m.val, inj), LAMBDA d :
            IF d.exc /= "none" THEN d ELSE DeleteAsResolved(d.w, r, Tail(ts), inj)))

\* A Repository.delete that resolves and deletes tag by tag.
Repository_delete_eager(w, r, pri, inj) ==
    Bind(Repository_tags(w, r, inj), LAMBDA ts :
        IF ts.exc /= "none" THEN Ret(ts.w, ts.exc, None)
        ELSE DeleteAsResolved(ts.w, r, ts.val.keys, inj))

\* Repository.delete
Repository_delete(w, r, pri, inj) ==
    Bind(Repository_manifests(w, r, inj), LAMBDA ms :
        IF ms.exc /= "none" THEN Ret(ms.w, ms.exc, None)
        ELSE Bind(Ordered(ms.val, 1..Len(ms.val), pri), LAMBDA order :
                DeleteEach(ms.w, order, inj)))

\* ------------------------------------------------------------- Registry
\* The repository names of a catalog reply, in the order the registry lists them.
RepoOrder == <<"app", "lib">>

\* The mapping Registry._repositories builds from a catalog reply.
RepoMapping(w, c) ==
    [id |-> <<"repositories", Gen(w.repositories)>>,
     keys |-> Listed(c.val.body[1].repositories, RepoOrder),
     repos |-> [r \in c.val.body[1].repositories |-> [tags |-> None]]]

\* A Registry._repositories that reads the catalog on every access.
Registry__repositories_refetch(w, inj) ==
    Bind(catalog(w, inj), LAMBDA c :
        IF c.exc /= "none" THEN Ret(c.w, c.exc, None)
        ELSE Ret([c.w EXCEPT !.repositories = Some(RepoMapping(c.w, c))],
                 "none", RepoMapping(c.w, c)))

\* Registry._repositories
Registry__repositories(w, inj) ==
    IF w.repositories /= None THEN Ret(w, "none", w.repositories[1])
    ELSE Bind(catalog(w, inj), LAMBDA c :
        IF c.exc /= "none" THEN Ret(c.w, c.exc, None)
        ELSE Ret([c.w EXCEPT !.repositories = Some(RepoMapping(c.w, c))],
                 "none", RepoMapping(c.w, c)))

\* Registry.__getitem__
Registry_getitem(w, repository, inj) ==
    Bind(Registry__repositories(w, inj), LAMBDA rs :
        IF rs.exc /= "none" THEN rs
        ELSE IF repository \notin DOMAIN rs.val.repos THEN Ret(rs.w, "KeyError", None)
        ELSE Ret(rs.w, "none", ChildRef(rs.val, repository)))

\* A Registry.get that lets the KeyError of a missing key through.
Registry_get_raise(w, repository, inj) == Registry_getitem(w, repository, inj)

\* Registry.get
Registry_get(w, repository, inj) ==
    Bind(Registry_getitem(w, repository, inj), LAMBDA g :
        IF g.exc = "KeyError" THEN Ret(g.w, "none", Default) ELSE g)

\* Registry.repositories
Registry_repositories(w, inj) ==
    Bind(Registry__repositories(w, inj), LAMBDA rs :
        IF rs.exc /= "none" THEN rs ELSE ValuesView(rs.w, rs.val))

\* ------------------------------------------------------- construction
\* BaseClientV2.__init__ makes a client of its own: a new session and a new
\* AuthorizationService; w is the caller's world with that client in it.
BaseClientV2_init(w) ==
    [w EXCEPT !.token = None, !.scope = None, !.desired_scope = None, !.closed = FALSE]

\* BaseClient(host, api_version=...): api_version is None, Some(1), Some(2) or
\* another number.  The probe's failure is caught when it is a requests
\* HTTPError, which a failure with a reply is (status /= 0); a lost reply and a
\* failed renewal are other exceptions and pass through.  The value returned is
\* Some("BaseClientV2") for a client and None for Python's None.
BaseClient(w, api_version, inj) ==
    IF api_version = Some(1) THEN Ret(w, "NotImplementedError", None)
    ELSE IF api_version = Some(2) THEN Ret(BaseClientV2_init(w), "none", Some("BaseClientV2"))
    ELSE IF api_version = None THEN
        Bind(check_status(BaseClientV2_init(w), inj), LAMBDA c :
            IF c.exc = "none" THEN Ret(c.w, "none", Some("BaseClientV2"))
            ELSE IF c.exc = "HTTPError" /\ c.val.status /= 0
            THEN (IF c.val.status = 404 THEN Ret(c.w, "NotImplementedError", None)
                  ELSE Ret(c.w, "none", None))
            ELSE Ret(c.w, c.exc, None))
    ELSE Ret(w, "RuntimeError", None)

\* Registry.__init__: the client is BaseClientV2(host, ...), imported under the
\* name BaseClient; nothing is sent.
Registry_init(w) ==
    Ret([BaseClientV2_init(w) EXCEPT !.repositories = None], "none", Some("Registry"))

\* ------------------------------------------------------- the state machine
\* The failures a caller operation making at most k client calls can meet.
NoFailure == <<0, "none">>
Inj(k) == {NoFailure} \cup ((1..k) \X {"auth", "http"})
MaxTags == Cardinality(TagNames)
Ranks == {p \in [1..MaxTags -> 1..MaxTags] : \A i, j \in 1..MaxTags : p[i] = p[j] => i = j}

\* No caller operation is between two of its requests.
NoPending == [call |-> <<>>, replies |-> <<>>, pushes |-> 0]

\* The state a caller operation runs from: the client as it was when the
\* operation started, the registry as it is now, the replies had so far, and the
\* operation's own I/O log empty.
World ==
    [token |-> token, scope |-> scope, desired_scope |-> desired_scope,
     rcat |-> rcat, rtags |-> rtags, rman |-> rman, rblobs |-> rblobs,
     repositories |-> repositories, loose |-> loose, closed |-> closed,
     log |-> <<>>, n |-> 0, op |-> nSteps + 1,
     replay |-> pending.replies, fresh |-> None, paused |-> FALSE]

\* The call this step sent failed the way inj says.
Fired(inj, f) ==
    /\ f.n = inj[1]
    /\ inj[2] = "auth" => ~f.auth_ok
    /\ inj[2] = "http" => (f.auth_ok /\ f.rsp.status = 0)
    /\ inj[2] = "500" => f.rsp.status = 500

\* One step of caller operation op(args), sel fixing the choices it makes: the
\* operation starts, or goes on from its latest reply; it sends at most one
\* request and has the reply, and either comes to its next request (the registry
\* has the effect of the one sent, the caller has nothing yet) or ends: then the
\* client is as the operation leaves it and the caller has its result.
Step(op, args, sel, inj, res) ==
    /\ nSteps < MaxSteps
    /\ pending = NoPending \/ pending.call = <<op, args, sel>>
    /\ \E r \in {res} :
        /\ inj = NoFailure \/ (r.w.fresh /= None /\ Fired(inj, r.w.fresh[1]))
        /\ rcat' = r.w.rcat
        /\ rtags' = r.w.rtags
        /\ rman' = r.w.rman
        /\ rblobs' = r.w.rblobs
        /\ IF r.w.paused
           THEN /\ pending' = [call |-> <<op, args, sel>>,
                               replies |-> Append(pending.replies, r.w.fresh[1]),
                               pushes |-> pending.pushes]
                /\ UNCHANGED <<token, scope, desired_scope, repositories, loose,
                               closed, log, result, nSteps>>
           ELSE /\ pending' = NoPending
                /\ token' = r.w.token
                /\ scope' = r.w.scope
                /\ desired_scope' = r.w.desired_scope
                /\ repositories' = r.w.repositories
                /\ loose' = r.w.loose
                /\ closed' = r.w.closed
                /\ log' = r.w.log
                /\ result' = [op |-> op, args |-> args, exc |-> r.exc, val |-> r.val]
                /\ nSteps' = nSteps + 1
        /\ UNCHANGED <<v2, converts, token_required, pc, frame>>

\* A step of an operation that makes no choices.
Finish(op, args, inj, res) == Step(op, args, <<>>, inj, res)

\* The repositories, tags and manifests the caller can reach through the caches.
CachedRepos ==
    IF repositories = None THEN {} ELSE DOMAIN repositories[1].repos
CachedTags(r) ==
    IF r \notin CachedRepos \/ repositories[1].repos[r].tags = None THEN {}
    ELSE DOMAIN repositories[1].repos[r].tags[1].map
HeldManifests ==
    {l \in {<<"tag", r, t>> : r \in Repos, t \in TagNames} :
        /\ l[2] \in CachedRepos /\ l[3] \in CachedTags(l[2])
        /\ TagAt(World, l[2], l[3]).manifest /= None}
    \cup (IF loose = None THEN {} ELSE {<<"loose">>})

\* The local variables of a thread that runs no accessor yet.
NoFrame ==
    [op |-> <<>>, token |-> None, desired_scope |-> None, scope |-> None,
     asked |-> None, bearer |-> None, rsp |-> NoReply, made |-> None, val |-> None,
     exc |-> "none", found |-> FALSE, disturbed |-> FALSE]

\* The client as constructed, no thread running.
InitClient ==
    /\ closed = FALSE
    /\ token = None
    /\ scope = None
    /\ desired_scope = None
    /\ repositories = None
    /\ loose = None
    /\ log = <<>>
    /\ result = [op |-> "init", args |-> <<>>, exc |-> "none", val |-> None]
    /\ nSteps = 0
    /\ pc = [t \in Threads |-> "idle"]
    /\ frame = [t \in Threads |-> NoFrame]
    /\ pending = NoPending

\* The registry's contents and the client as constructed.
InitRest ==
    /\ InitClient
    /\ rcat = {"app"}
    /\ \E d \in Digests :
        /\ rtags = [r \in Repos |-> [t \in TagNames |->
                      IF r = "app" THEN (IF t = "v1" THEN Some("sha256:abc") ELSE Some(d))
                      ELSE None]]
        /\ rman = {<<"app", "sha256:abc">>, <<"app", d>>}
        /\ rblobs = {<<"app", CfgOf("sha256:abc")>>, <<"app", CfgOf(d)>>}

\* A registry that serves the v2 API and serves manifests as stored.
Init ==
    /\ v2 = TRUE
    /\ converts = FALSE
    /\ token_required \in BOOLEAN
    /\ InitRest

\* Another client pushes manifest d to repository r under tag t: between two
\* caller operations, as a step of the run, or between two requests of one, any
\* number of times up to MaxPushes and to what is left of the run.  The push is
\* then the latest thing that ended: the log is empty and the outcome is its own.
RemotePush(r, t, d) ==
    /\ IF pending = NoPending
       THEN /\ nSteps < MaxSteps
            /\ nSteps' = nSteps + 1
            /\ pending' = pending
       ELSE /\ pending.pushes < MaxPushes
            /\ nSteps + pending.pushes < MaxSteps
            /\ nSteps' = nSteps
            /\ pending' = [pending EXCEPT !.pushes = @ + 1]
    /\ log' = <<>>
    /\ result' = [op |-> "push", args |-> <<r, t>>, exc |-> "none", val |-> None]
    /\ rcat' = rcat \cup {r}
    /\ rtags' = [rtags EXCEPT ![r][t] = Some(d)]
    /\ rman' = rman \cup {<<r, d>>}
    /\ rblobs' = rblobs \cup {<<r, CfgOf(d)>>}
    /\ UNCHANGED <<v2, converts, closed, token_required, token, scope, desired_scope,
                   repositories, loose, pc, frame>>

\* The caller builds Manifest(client, repo, digest) itself, without content.
NewManifest(r, d) ==
    /\ nSteps < MaxSteps
    /\ pending = NoPending
    /\ nSteps' = nSteps + 1
    /\ loose = None
    /\ loose' = Some(NewManifestObj(<<"Manifest", "loose", 1>>, r, d, None))
    /\ log' = <<>>
    /\ result' = [op |-> "Manifest", args |-> <<r, d>>, exc |-> "none", val |-> None]
    /\ UNCHANGED <<v2, converts, closed, token_required, token, scope, desired_scope,
                   rcat, rtags, rman, rblobs, repositories, pc, frame, pending>>

CheckStatus(inj) ==
    /\ nSteps < MaxSteps
    /\ Finish("check_status", <<>>, inj, check_status(World, inj))
DeleteBlob(r, d, inj) ==
    /\ nSteps < MaxSteps
    /\ Finish("delete_blob", <<r, CfgOf(d)>>, inj, delete_blob(World, r, CfgOf(d), inj))

RegistryRepositories(inj) ==
    /\ nSteps < MaxSteps
    /\ Finish("Registry.repositories", <<>>, inj, Registry_repositories(World, inj))
RegistryGet(key, inj) ==
    /\ nSteps < MaxSteps
    /\ Finish("Registry.get", <<key>>, inj, Registry_get(World, key, inj))

RepositoryTags(r, inj) ==
    /\ r \in CachedRepos
    /\ Finish("Repository.tags", <<r>>, inj, Repository_tags(World, r, inj))
RepositoryGet(r, key, inj) ==
    /\ r \in CachedRepos
    /\ Finish("Repository.get", <<r, key>>, inj, Repository_get(World, r, key, inj))
RepositoryManifests(r, inj) ==
    /\ r \in CachedRepos
    /\ Finish("Repository.manifests", <<r>>, inj, Repository_manifests(World, r, inj))
RepositoryDelete(r, pri, inj) ==
    /\ r \in CachedRepos
    /\ Step("Repository.delete", <<r>>, pri, inj, Repository_delete(World, r, pri, inj))

TagManifest(r, t, inj) ==
    /\ t \in CachedTags(r)
    /\ Finish("Tag.manifest", <<r, t>>, inj, Tag_manifest(World, r, t, inj))
TagDelete(r, t, inj) ==
    /\ t \in CachedTags(r)
    /\ Finish("Tag.delete", <<r, t>>, inj, Tag_delete(World, r, t, inj))

ManifestContent(loc, inj) ==
    /\ loc \in HeldManifests
    /\ Finish("Manifest.content", loc, inj, Manifest_content(World, loc, inj))
ManifestAge(loc, inj) ==
    /\ loc \in HeldManifests
    /\ Finish("Manifest.age", loc, inj, Manifest_age(World, loc, inj))
ManifestDelete(loc, inj) ==
    /\ loc \in HeldManifests
    /\ Finish("Manifest.delete", loc, inj, Manifest_delete(World, GetMan(World, loc), inj))

ManifestEq(la, lb, inj) ==
    /\ la \in HeldManifests
    /\ lb \in HeldManifests
    /\ Finish("Manifest.__eq__", <<la, lb>>, inj, Manifest_eq(World, la, lb, inj))

Locs == {<<"loose">>} \cup {<<"tag", r, t>> : r \in Repos, t \in TagNames}

Next ==
    \/ \E r \in Repos, t \in TagNames, d \in Digests : RemotePush(r, t, d)
    \/ \E r \in Repos, d \in Digests : NewManifest(r, d)
    \/ \E inj \in Inj(1) : CheckStatus(inj)
    \/ \E r \in Repos, d \in Digests, inj \in Inj(1) : DeleteBlob(r, d, inj)
    \/ \E inj \in Inj(1) : RegistryRepositories(inj)
    \/ \E key \in Repos \cup {Missing}, inj \in Inj(1) : RegistryGet(key, inj)
    \/ \E r \in Repos, inj \in Inj(1) : RepositoryTags(r, inj)
    \/ \E r \in Repos, key \in TagNames \cup {Missing}, inj \in Inj(1) :
          RepositoryGet(r, key, inj)
    \/ \E r \in Repos, inj \in Inj(1 + MaxTags) : RepositoryManifests(r, inj)
    \/ \E r \in Repos, pri \in Ranks, inj \in Inj(1 + 2 * MaxTags) :
          RepositoryDelete(r, pri, inj)
    \/ \E r \in Repos, t \in TagNames, inj \in Inj(1) : TagManifest(r, t, inj)
    \/ \E r \in Repos, t \in TagNames, inj \in Inj(2) : TagDelete(r, t, inj)
    \/ \E loc \in Locs, inj \in Inj(1) : ManifestContent(loc, inj)
    \/ \E loc \in Locs, inj \in Inj(2) : ManifestAge(loc, inj)
    \/ \E loc \in Locs, inj \in Inj(1) : ManifestDelete(loc, inj)
    \/ \E la \in Locs, lb \in Locs, inj \in Inj(2) : ManifestEq(la, lb, inj)

Spec == Init /\ [][Next]_vars

\* ------------------------------------------- construction, any registry
\* What a constructor leaves: the caller gets a new object, or an error; the
\* Registry it already holds, with its client and its caches, is as it was.
Construct(op, args, inj, res) ==
    /\ nSteps < MaxSteps
    /\ pending = NoPending
    /\ \E r \in {res} :
        /\ inj = NoFailure
           \/ /\ r.w.log /= <<>>
              /\ r.w.log[Len(r.w.log)].status \notin {200, 202}
        /\ log' = r.w.log
        /\ result' = [op |-> op, args |-> args, exc |-> r.exc, val |-> r.val]
        /\ nSteps' = nSteps + 1
        /\ UNCHANGED <<v2, converts, closed, token_required, token, scope,
                       desired_scope, rcat, rtags, rman, rblobs, repositories, loose,
                       pc, frame, pending>>

ApiVersions == {None, Some(1), Some(2), Some(3)}
InjProbe == Inj(1) \cup {<<1, "500">>}

BaseClientNew(api_version, inj) ==
    /\ nSteps < MaxSteps
    /\ Construct("BaseClient", <<api_version>>, inj, BaseClient(World, api_version, inj))
RegistryNew ==
    /\ nSteps < MaxSteps
    /\ Construct("Registry", <<>>, NoFailure, Registry_init(World))

\* Any registry: one that serves the v2 API or answers 404 to everything, one that
\* serves manifests as stored or converted.  Token auth is found by a 401
\* challenge, which a registry without the v2 API does not give.
InitEnv ==
    /\ v2 \in BOOLEAN
    /\ converts \in BOOLEAN
    /\ token_required \in BOOLEAN
    /\ token_required => v2
    /\ InitRest

NextEnv ==
    \/ \E r \in Repos, t \in TagNames, d \in Digests : RemotePush(r, t, d)
    \/ \E api_version \in ApiVersions, inj \in InjProbe : BaseClientNew(api_version, inj)
    \/ RegistryNew
    \/ \E inj \in Inj(1) : CheckStatus(inj)
    \/ \E inj \in Inj(1) : RegistryRepositories(inj)
    \/ \E key \in Repos \cup {Missing}, inj \in Inj(1) : RegistryGet(key, inj)
    \/ \E r \in Repos, inj \in Inj(1) : RepositoryTags(r, inj)
    \/ \E r \in Repos, inj \in Inj(1 + MaxTags) : RepositoryManifests(r, inj)
    \/ \E r \in Repos, pri \in Ranks, inj \in Inj(1 + 2 * MaxTags) :
          RepositoryDelete(r, pri, inj)
    \/ \E r \in Repos, t \in TagNames, inj \in Inj(1) : TagManifest(r, t, inj)
    \/ \E r \in Repos, t \in TagNames, inj \in Inj(2) : TagDelete(r, t, inj)
    \/ \E loc \in Locs, inj \in Inj(1) : ManifestDelete(loc, inj)

SpecEnv == InitEnv /\ [][NextEnv]_vars

\* ------------------------------------------- threads sharing one Registry
\* Each thread runs one lazy accessor of the entity model, one attribute read or
\* write, or one network round trip, at a time; nothing in the code excludes the
\* other thread in between.  op is <<"Registry.repositories">>,
\* <<"Repository.tags", repo>> or <<"Tag.manifest", repo, tag>>.
ThreadOps ==
    {<<"Registry.repositories">>} \cup {<<"Repository.tags", r>> : r \in Repos}
        \cup {<<"Tag.manifest", r, t>> : r \in Repos, t \in TagNames}

\* The cached field the accessor tests, fills and returns.
LazyField(op) ==
    IF op[1] = "Registry.repositories" THEN repositories
    ELSE IF op[1] = "Repository.tags" THEN repositories[1].repos[op[2]].tags
    ELSE TagAt(World, op[2], op[3]).manifest

\* An accessor that takes every access for the first one.
Unresolved_always(field) == TRUE

\* `if self.__x is None`: whether the accessor goes on to populate the field.
Unresolved(field) == field = None

\* The client call that populates the field: its scope, route, name and reference.
OpScope(op) == IF op[1] = "Registry.repositories" THEN CATALOG_SCOPE ELSE RepoScope(op[2])
OpRoute(op) ==
    IF op[1] = "Registry.repositories" THEN "/v2/_catalog"
    ELSE IF op[1] = "Repository.tags" THEN "tags/list" ELSE "manifests"
OpName(op) == IF op[1] = "Registry.repositories" THEN "" ELSE op[2]
OpRef(op) == IF op[1] = "Tag.manifest" THEN op[3] ELSE ""

AllIdle == \A t \in Threads : pc[t] = "idle"
Go(t, label) == pc' = [pc EXCEPT ![t] = label]

\* A thread is in flight from the moment it has set its desired scope until its
\* request is sent; a write of the shared auth state by thread t in that time is
\* recorded in the other thread's frame.
InFlight(u) ==
    pc[u] \in {"read_token", "read_desired", "read_scope", "renew", "renew_store",
               "read_header", "send"}
Disturb(f, t) ==
    [u \in Threads |-> IF u /= t /\ InFlight(u) THEN [f[u] EXCEPT !.disturbed = TRUE]
                       ELSE f[u]]

\* The accessor is entered and tests its field.
T_Check(t, op) ==
    /\ pc[t] = "idle"
    /\ op[1] = "Repository.tags" => op[2] \in CachedRepos
    /\ op[1] = "Tag.manifest" => op[3] \in CachedTags(op[2])
    /\ frame' = [frame EXCEPT ![t] =
                   [NoFrame EXCEPT !.op = op, !.found = LazyField(op) /= None]]
    /\ Go(t, IF Unresolved(LazyField(op)) THEN "set_scope" ELSE "return")
    /\ UNCHANGED <<v2, converts, closed, token_required, token, scope, desired_scope,
                   rcat, rtags, rman, rblobs, repositories, loose, log, result, nSteps,
                   pending>>

\* catalog / get_repository_tags / get_manifest: self.auth.desired_scope = ...
T_SetScope(t) ==
    /\ pc[t] = "set_scope"
    /\ desired_scope' = OpScope(frame[t].op)
    /\ frame' = Disturb(frame, t)
    /\ Go(t, "read_token")
    /\ UNCHANGED <<v2, converts, closed, token_required, token, scope,
                   rcat, rtags, rman, rblobs, repositories, loose, log, result, nSteps,
                   pending>>

\* _http_response: token = auth.token
T_ReadToken(t) ==
    /\ pc[t] = "read_token"
    /\ frame' = [frame EXCEPT ![t].token = token]
    /\ Go(t, "read_desired")
    /\ UNCHANGED <<v2, converts, closed, token_required, token, scope, desired_scope,
                   rcat, rtags, rman, rblobs, repositories, loose, log, result, nSteps,
                   pending>>

\* _http_response: desired_scope = auth.desired_scope
T_ReadDesired(t) ==
    /\ pc[t] = "read_desired"
    /\ frame' = [frame EXCEPT ![t].desired_scope = desired_scope]
    /\ Go(t, "read_scope")
    /\ UNCHANGED <<v2, converts, closed, token_required, token, scope, desired_scope,
                   rcat, rtags, rman, rblobs, repositories, loose, log, result, nSteps,
                   pending>>

\* _http_response: scope = auth.scope, and the test of the values read.
T_ReadScope(t) ==
    /\ pc[t] = "read_scope"
    /\ frame' = [frame EXCEPT ![t].scope = scope]
    /\ Go(t, IF ~token_required THEN "send"
             ELSE IF NeedsRenewal([frame[t] EXCEPT !.scope = scope]) THEN "renew"
             ELSE "read_header")
    /\ UNCHANGED <<v2, converts, closed, token_required, token, scope, desired_scope,
                   rcat, rtags, rman, rblobs, repositories, loose, log, result, nSteps,
                   pending>>

\* get_new_token asks the authorization endpoint for the scope desired right now.
T_Renew(t) ==
    /\ pc[t] = "renew"
    /\ frame' = [frame EXCEPT ![t].asked = Some(desired_scope)]
    /\ Go(t, "renew_store")
    /\ UNCHANGED <<v2, converts, closed, token_required, token, scope, desired_scope,
                   rcat, rtags, rman, rblobs, repositories, loose, log, result, nSteps,
                   pending>>

\* get_new_token stores the token it got and the scope it was minted for.
T_RenewStore(t) ==
    /\ pc[t] = "renew_store"
    /\ \E w \in {GetNewToken([World EXCEPT !.desired_scope = frame[t].asked[1],
                                          !.log = log], TRUE)} :
        /\ token' = w.token
        /\ scope' = w.scope
        /\ log' = w.log
    /\ frame' = Disturb(frame, t)
    /\ Go(t, "read_header")
    /\ UNCHANGED <<v2, converts, closed, token_required, desired_scope,
                   rcat, rtags, rman, rblobs, repositories, loose, result, nSteps,
                   pending>>

\* An _http_response that puts the token it read at its start into the header.
T_ReadHeader_local(t) ==
    /\ pc[t] = "read_header"
    /\ frame' = [frame EXCEPT ![t].bearer = frame[t].token]
    /\ Go(t, "send")
    /\ UNCHANGED <<v2, converts, closed, token_required, token, scope, desired_scope,
                   rcat, rtags, rman, rblobs, repositories, loose, log, result, nSteps,
                   pending>>

\* _http_response: header['Authorization'] = 'Bearer %s' % self.auth.token
T_ReadHeader(t) ==
    /\ pc[t] = "read_header"
    /\ frame' = [frame EXCEPT ![t].bearer = token]
    /\ Go(t, "send")
    /\ UNCHANGED <<v2, converts, closed, token_required, token, scope, desired_scope,
                   rcat, rtags, rman, rblobs, repositories, loose, log, result, nSteps,
                   pending>>

\* _http_response: the request, the registry's answer and raise_for_status.
T_Send(t) ==
    /\ pc[t] = "send"
    /\ \E srv \in {Serve(World, "GET", OpRoute(frame[t].op), OpName(frame[t].op),
                         OpRef(frame[t].op), frame[t].bearer)} :
        /\ log' = Append(log, ReqEvent("GET", OpRoute(frame[t].op), OpName(frame[t].op),
                                       OpRef(frame[t].op), frame[t].bearer,
                                       srv.rsp))
        /\ frame' = [frame EXCEPT ![t].rsp = srv.rsp,
                                  ![t].exc = IF srv.rsp.status \in {200, 202}
                                             THEN "none" ELSE "HTTPError"]
        /\ Go(t, IF srv.rsp.status \in {200, 202} THEN "assign" ELSE "done")
    /\ UNCHANGED <<v2, converts, closed, token_required, token, scope, desired_scope,
                   rcat, rtags, rman, rblobs, repositories, loose, result, nSteps,
                   pending>>

\* The object the accessor builds from the reply and stores in its field.
Populated(op, rsp) ==
    IF op[1] = "Registry.repositories"
    THEN [repositories |-> Some(RepoMapping(World, [val |-> rsp])),
          id |-> RepoMapping(World, [val |-> rsp]).id]
    ELSE IF op[1] = "Repository.tags"
    THEN [repositories |->
            PutTags(World, op[2], TagMapping(World, op[2], [val |-> rsp])).repositories,
          id |-> TagMapping(World, op[2], [val |-> rsp]).id]
    ELSE LET c == [val |-> [content |-> rsp.body, digest |-> rsp.digest[1]]]
         IN  [repositories |->
                PutMan(World, <<"tag", op[2], op[3]>>,
                       FetchedManifest(World, op[2], op[3], c)).repositories,
              id |-> FetchedManifest(World, op[2], op[3], c).id]

\* self.__x = ...
T_Assign(t) ==
    /\ pc[t] = "assign"
    /\ \E p \in {Populated(frame[t].op, frame[t].rsp)} :
        /\ repositories' = p.repositories
        /\ frame' = [frame EXCEPT ![t].made = Some(p.id)]
    /\ Go(t, "return")
    /\ UNCHANGED <<v2, converts, closed, token_required, token, scope, desired_scope,
                   rcat, rtags, rman, rblobs, loose, log, result, nSteps,
                   pending>>

\* return self.__x: the field is read again.
T_Return(t) ==
    /\ pc[t] = "return"
    /\ frame' = [frame EXCEPT ![t].val = Some(LazyField(frame[t].op)[1].id)]
    /\ Go(t, "done")
    /\ UNCHANGED <<v2, converts, closed, token_required, token, scope, desired_scope,
                   rcat, rtags, rman, rblobs, repositories, loose, log, result, nSteps,
                   pending>>

\* Before the threads start, one caller resolves some of the caches.
WarmRepositories == AllIdle /\ RegistryRepositories(NoFailure)
WarmTags(r) == AllIdle /\ RepositoryTags(r, NoFailure)

\* A registry with two repositories, so that two calls can need different scopes.
InitThreads ==
    /\ v2 = TRUE
    /\ converts = FALSE
    /\ token_required \in BOOLEAN
    /\ InitClient
    /\ rcat = {"app", "lib"}
    /\ rtags = [r \in Repos |-> [t \in TagNames |->
                  IF t = "v1" THEN Some(IF r = "app" THEN "sha256:abc" ELSE "sha256:def")
                  ELSE None]]
    /\ rman = {<<"app", "sha256:abc">>, <<"lib", "sha256:def">>}
    /\ rblobs = {<<"app", CfgOf("sha256:abc")>>, <<"lib", CfgOf("sha256:def")>>}

NextThreads ==
    \/ WarmRepositories
    \/ \E r \in Repos : WarmTags(r)
    \/ \E t \in Threads, op \in ThreadOps : T_Check(t, op)
    \/ \E t \in Threads : T_SetScope(t)
    \/ \E t \in Threads : T_ReadToken(t)
    \/ \E t \in Threads : T_ReadDesired(t)
    \/ \E t \in Threads : T_ReadScope(t)
    \/ \E t \in Threads : T_Renew(t)
    \/ \E t \in Threads : T_RenewStore(t)
    \/ \E t \in Threads : T_ReadHeader(t)
    \/ \E t \in Threads : T_Send(t)
    \/ \E t \in Threads : T_Assign(t)
    \/ \E t \in Threads : T_Return(t)

SpecThreads == InitThreads /\ [][NextThreads]_vars

\* ================================================================ claims
\* The I/O log of one caller operation is a run of client calls.  A call ends at
\* its request, or at its renewal when the renewal failed.
IsReq(e) == e.kind = "req"
IsRenew(e) == e.kind = "renew"
CallEnds(l) == {i \in 1..Len(l) : IsReq(l[i]) \/ (IsRenew(l[i]) /\ l[i].status /= 200)}
PrevEnd(l, i) ==
    IF \E j \in CallEnds(l) : j < i
    THEN CHOOSE j \in CallEnds(l) : j < i /\ \A k \in CallEnds(l) : k < i => k <= j
    ELSE 0
\* Renewals made by the call that ends at position i of log l.
RenewalsOf(l, i) == Cardinality({j \in (PrevEnd(l, i) + 1)..i : IsRenew(l[j])})
\* The token held when that call began: tok0 is the token held before the operation.
TokenBefore(l, i, tok0) == IF PrevEnd(l, i) = 0 THEN tok0 ELSE l[PrevEnd(l, i)].bearer
\* The scope that call set.
WantOf(e) == IF IsReq(e) THEN RouteScope(e.route, e.name) ELSE e.scope
Stepped == nSteps' = nSteps + 1

\* C1: with token auth required, a client call renews the token exactly once,
\* before its request, when no token is held or the held token was issued for
\* another scope than the call set, and makes no renewal otherwise; so a call for
\* scope B after a token for scope A renews once and the next call for B not at all.
C1_RenewalIffScopeChange ==
    [][(token_required /\ Stepped) =>
        \A i \in CallEnds(log') :
            LET held == TokenBefore(log', i, token)
            IN  /\ RenewalsOf(log', i) =
                     (IF held = None \/ held[1] /= WantOf(log'[i]) THEN 1 ELSE 0)
                /\ (IsReq(log'[i]) /\ RenewalsOf(log', i) = 1) =>
                     (IsRenew(log'[i - 1]) /\ log'[i - 1].scope = WantOf(log'[i]))]_vars

\* C1 witness: one operation whose first call, for repository app, renewed the
\* catalog token once and whose next call for the same scope renewed nothing.
C1_Witness ==
    /\ token_required
    /\ Len(log) >= 3
    /\ IsRenew(log[1]) /\ log[1].scope = RepoScope("app") /\ log[1].status = 200
    /\ IsReq(log[2]) /\ log[2].name = "app"
    /\ IsReq(log[3]) /\ log[3].name = "app"
    /\ log[3].bearer = Some(RepoScope("app"))
    /\ repositories /= None

\* C2: every request a client operation sends while token auth is required
\* carries a bearer token issued for the scope of that operation (the catalog
\* scope for /v2/ and /v2/_catalog, the repository's scope for its routes); without
\* token auth nothing is renewed and no bearer header is attached.
C2_BearerMatchesScope ==
    \A i \in 1..Len(log) :
        IF token_required
        THEN IsReq(log[i]) => log[i].bearer = Some(RouteScope(log[i].route, log[i].name))
        ELSE IsReq(log[i]) /\ log[i].bearer = None

\* C2 witness: a DELETE for repository app sent with a repository-scope bearer,
\* after the catalog was read with a catalog-scope bearer.
C2_Witness ==
    /\ token_required
    /\ repositories /= None
    /\ \E i \in 1..Len(log) :
        /\ IsReq(log[i]) /\ log[i].method = "DELETE" /\ log[i].name = "app"
        /\ log[i].bearer = Some(RepoScope("app"))
        /\ log[i].status = 202

\* The cached fields, read from a value of Registry.__repositories.
TagsOf(reg, r) == reg[1].repos[r].tags
ManOf(reg, r, t) == reg[1].repos[r].tags[1].map[t].manifest
HasRepo(reg, r) == reg /= None /\ r \in DOMAIN reg[1].repos
HasTag(reg, r, t) ==
    HasRepo(reg, r) /\ TagsOf(reg, r) /= None /\ t \in DOMAIN TagsOf(reg, r)[1].map
ReqCount(l) == Cardinality({i \in 1..Len(l) : IsReq(l[i])})
Failed(x) == x.exc \in {"HTTPError", "AuthError"}
\* The latest two steps are the same accessor on the same object, both successful.
SameAccessTwice(op) ==
    /\ Stepped
    /\ result.op = op /\ result'.op = op /\ result'.args = result.args
    /\ result.exc = "none" /\ result'.exc = "none"

\* C3 as stated: two successful accesses of Repository.tags make one tag-listing
\* call in total and return the identical collection object; Registry.repositories
\* after its first access returns the cached collection without I/O.
C3_SameCollectionObject ==
    [][/\ SameAccessTwice("Repository.tags") =>
            (ReqCount(log) + ReqCount(log') <= 1 /\ result'.val.id = result.val.id)
       /\ SameAccessTwice("Registry.repositories") =>
            (ReqCount(log) + ReqCount(log') <= 1 /\ result'.val.of = result.val.of)]_vars

\* C3 as amended: the first successful access of Repository.tags makes exactly
\* one tag-listing call and caches the mapping; every later access makes no call
\* and returns a view of that identical cached mapping (same mapping object, same
\* keys), the view object itself being a new one on each access; likewise
\* Registry.repositories with the catalog call.
C3_SameCachedMapping ==
    [][Stepped =>
        /\ (result'.op = "Repository.tags" /\ result'.exc = "none") =>
             LET r == result'.args[1]
                 was == TagsOf(repositories, r)
                 now == TagsOf(repositories', r)
             IN  /\ now /= None /\ result'.val.of = now[1].id
                 /\ result'.val.keys = now[1].keys
                 /\ IF was = None
                    THEN /\ ReqCount(log') = 1
                         /\ \E i \in 1..Len(log') : /\ IsReq(log'[i])
                                                    /\ log'[i].route = "tags/list"
                                                    /\ log'[i].name = r
                    ELSE log' = <<>> /\ now = was
        /\ (result'.op = "Registry.repositories" /\ result'.exc = "none") =>
             /\ repositories' /= None /\ result'.val.of = repositories'[1].id
             /\ IF repositories = None
                THEN /\ ReqCount(log') = 1
                     /\ \E i \in 1..Len(log') : /\ IsReq(log'[i])
                                                /\ log'[i].route = "/v2/_catalog"
                ELSE log' = <<>> /\ repositories' = repositories
        /\ \A op \in {"Repository.tags", "Registry.repositories"} :
             SameAccessTwice(op) =>
                /\ ReqCount(log) + ReqCount(log') <= 1
                /\ result'.val.of = result.val.of
                /\ result'.val.keys = result.val.keys
                /\ result'.val.id /= result.val.id]_vars

\* C3 witness: Repository.tags answered from the cache, with no I/O, by a view of
\* the cached mapping.
C3_Witness ==
    /\ result.op = "Repository.tags" /\ result.exc = "none"
    /\ log = <<>>
    /\ result.val.of = TagsOf(repositories, result.args[1])[1].id
    /\ result.val.keys = <<"v1", "v2">>

\* C4: the first successful access of Tag.manifest makes exactly one
\* GET manifests/<tag> call and caches a Manifest built from the returned content
\* and digest; every later access returns that identical Manifest and makes no
\* call, whatever the remote registry has become.
C4_TagManifestMemo ==
    [][(Stepped /\ result'.op = "Tag.manifest") =>
        LET r == result'.args[1]
            t == result'.args[2]
            was == ManOf(repositories, r, t)
            now == ManOf(repositories', r, t)
            served == Resolve(World, r, t)
        IN  IF was = None
            THEN result'.exc = "none" =>
                   /\ Len(log') = ReqCount(log') + (IF IsRenew(log'[1]) THEN 1 ELSE 0)
                   /\ ReqCount(log') = 1
                   /\ LET e == log'[Len(log')]
                      IN  e.method = "GET" /\ e.route = "manifests"
                          /\ e.name = r /\ e.ref = t
                   /\ now = Some(result'.val)
                   /\ now[1].repo = r
                   /\ Some(now[1].digest) = served
                   /\ now[1].content = Some(ContentOf(served[1]))
            ELSE /\ result'.exc = "none"
                 /\ log' = <<>>
                 /\ result'.val = was[1]
                 /\ now = was]_vars

\* C4 witness: Tag.manifest answered from the cache with no I/O although the
\* remote registry no longer serves that digest under the tag.
C4_Witness ==
    /\ result.op = "Tag.manifest" /\ result.exc = "none"
    /\ log = <<>>
    /\ ManOf(repositories, result.args[1], result.args[2]) = Some(result.val)
    /\ Resolve(World, result.args[1], result.args[2]) /= Some(result.val.digest)

\* The cached field a lazy accessor resolves, read from the registry cache reg and
\* the caller's own Manifest lo.
FieldOf(op, args, reg, lo) ==
    IF op = "Registry.repositories" THEN reg
    ELSE IF op = "Repository.tags" THEN TagsOf(reg, args[1])
    ELSE IF op = "Tag.manifest" THEN ManOf(reg, args[1], args[2])
    ELSE LET m == IF args[1] = "loose" THEN lo[1] ELSE ManOf(reg, args[2], args[3])[1]
         IN  IF op = "Manifest.content" THEN m.content ELSE m.age
LazyAccessors ==
    {"Registry.repositories", "Repository.tags", "Tag.manifest", "Manifest.content",
     "Manifest.age"}
\* The route of the call that resolves the field.
RouteOf(op) ==
    IF op = "Registry.repositories" THEN "/v2/_catalog"
    ELSE IF op = "Repository.tags" THEN "tags/list"
    ELSE IF op = "Manifest.age" THEN "blobs"
    ELSE "manifests"

\* C5: when the network call made by an access of an unresolved
\* Registry.repositories, Repository.tags, Tag.manifest, Manifest.content or
\* Manifest.age fails, the error reaches the caller and the field stays
\* unresolved; and an access of an unresolved field always attempts the
\* resolving call, so the access after a failure attempts it again.
C5_FailureLeavesUnresolved ==
    [][(Stepped /\ result'.op \in LazyAccessors
          /\ FieldOf(result'.op, result'.args, repositories, loose) = None) =>
        /\ log' /= <<>>
        /\ LET e == log'[Len(log')]
           IN  /\ (e.status \notin {200, 202}) = Failed(result')
               /\ result'.exc /= "KeyError"
               /\ result'.exc = "none" => (IsReq(e) /\ e.route = RouteOf(result'.op))
        /\ Failed(result') =>
             FieldOf(result'.op, result'.args, repositories', loose') = None]_vars

\* C5 witness: a first Tag.manifest access whose request failed left the tag
\* unresolved.
C5_Witness ==
    /\ result.op = "Tag.manifest" /\ result.exc = "HTTPError"
    /\ IsReq(log[Len(log)]) /\ log[Len(log)].route = "manifests"
    /\ ManOf(repositories, result.args[1], result.args[2]) = None

\* The part of a Manifest that is fixed once cached.
Pinned(m) == <<m.id, m.repo, m.digest>>

\* C6: no step returns a resolved cached field to unresolved or replaces its
\* value: the repository mapping keeps its identity and its keys (the catalog as
\* it was at first access), each tag mapping its identity and keys, each tag its
\* Manifest, each Manifest its content and its age once fetched.
C6_ResolvedStaysResolved ==
    [][/\ repositories /= None =>
            /\ repositories' /= None
            /\ repositories'[1].id = repositories[1].id
            /\ repositories'[1].keys = repositories[1].keys
            /\ DOMAIN repositories'[1].repos = DOMAIN repositories[1].repos
       /\ \A r \in Repos : (HasRepo(repositories, r) /\ TagsOf(repositories, r) /= None) =>
            /\ TagsOf(repositories', r) /= None
            /\ TagsOf(repositories', r)[1].id = TagsOf(repositories, r)[1].id
            /\ TagsOf(repositories', r)[1].keys = TagsOf(repositories, r)[1].keys
            /\ DOMAIN TagsOf(repositories', r)[1].map = DOMAIN TagsOf(repositories, r)[1].map
       /\ \A r \in Repos, t \in TagNames :
            (HasTag(repositories, r, t) /\ ManOf(repositories, r, t) /= None) =>
               LET was == ManOf(repositories, r, t)[1]
                   now == ManOf(repositories', r, t)
               IN  /\ now /= None
                   /\ Pinned(now[1]) = Pinned(was)
                   /\ was.content /= None => now[1].content = was.content
                   /\ was.age /= None => now[1].age = was.age
       /\ loose /= None =>
            /\ loose' /= None
            /\ Pinned(loose'[1]) = Pinned(loose[1])
            /\ loose[1].content /= None => loose'[1].content = loose[1].content
            /\ loose[1].age /= None => loose'[1].age = loose[1].age]_vars

\* C6 witness: the cached repository mapping, read again without I/O, still lists
\* the catalog as it was at first access after another client pushed a new
\* repository.
C6_Witness ==
    /\ repositories /= None
    /\ {repositories[1].keys[i] : i \in 1..Len(repositories[1].keys)} /= rcat
    /\ result.op \in {"Registry.repositories", "Registry.get"}
    /\ result.exc = "none"
    /\ log = <<>>

\* The digests of the Manifests cached by the tags of repository r.
TagDigests(reg, r) ==
    {TagsOf(reg, r)[1].map[t].manifest[1].digest : t \in DOMAIN TagsOf(reg, r)[1].map}
AllTagsResolved(reg, r) ==
    /\ HasRepo(reg, r) /\ TagsOf(reg, r) /= None
    /\ \A t \in DOMAIN TagsOf(reg, r)[1].map : ManOf(reg, r, t) /= None

\* C7: after every tag of a repository resolved, Repository.manifests holds
\* exactly one entry per distinct digest its tags refer to, also when several tags
\* refer to one digest.
C7_OneManifestPerDigest ==
    (result.op = "Repository.manifests" /\ result.exc = "none") =>
        LET r == result.args[1]
            ms == result.val
        IN  /\ AllTagsResolved(repositories, r)
            /\ Len(ms) = Cardinality(TagDigests(repositories, r))
            /\ {ms[i].digest : i \in 1..Len(ms)} = TagDigests(repositories, r)
            /\ \A i \in 1..Len(ms) : \E t \in DOMAIN TagsOf(repositories, r)[1].map :
                   ManOf(repositories, r, t) = Some(ms[i])

\* C7 witness: tags v1 and v2 of app at one digest give a set of size 1.
C7_Witness ==
    /\ result.op = "Repository.manifests" /\ result.exc = "none"
    /\ result.args = <<"app">>
    /\ DOMAIN TagsOf(repositories, "app")[1].map = {"v1", "v2"}
    /\ Len(result.val) = 1
    /\ result.val[1].digest = "sha256:abc"

\* The requests of log l that GET the manifest of tag t of repository r.
ManifestGets(l, r, t) ==
    {i \in 1..Len(l) : /\ IsReq(l[i]) /\ l[i].method = "GET"
                       /\ l[i].route = "manifests" /\ l[i].name = r /\ l[i].ref = t}

\* A step of Repository.delete: one that leaves it between two of its requests,
\* or the one that ends it.
Paused == Len(pending'.replies) = Len(pending.replies) + 1
DeleteStep ==
    \/ Paused /\ pending'.call[1] = "Repository.delete"
    \/ Stepped /\ result'.op = "Repository.delete"

\* The manifests the registry deleted for the request of this step: the one a
\* DELETE it answered with 202 named, or none.
StepDeletes ==
    IF Paused
    THEN LET f == pending'.replies[Len(pending'.replies)]
         IN  IF f.req[1] = "DELETE" /\ f.req[2] = "manifests" /\ f.rsp.status = 202
             THEN {<<f.req[3], f.req[4]>>} ELSE {}
    ELSE IF Stepped /\ log' /= <<>>
    THEN LET e == log'[Len(log')]
         IN  IF IsReq(e) /\ e.method = "DELETE" /\ e.route = "manifests"
                /\ e.status = 202
             THEN {<<e.name, e.ref>>} ELSE {}
    ELSE {}

\* The DELETE requests in a log.
Deletes(l) == {i \in 1..Len(l) : IsReq(l[i]) /\ l[i].method = "DELETE"}

\* C8: Repository.delete sends DELETE only to /v2/<repo>/manifests/<digest> of
\* its own repository, for digests its tags refer to and never twice for one
\* digest; when every call succeeds it has sent exactly one for each such digest.
C8_OneDeletePerDigest ==
    result.op = "Repository.delete" =>
        LET r == result.args[1]
            dels == Deletes(log)
        IN  /\ (dels /= {} \/ result.exc = "none") => AllTagsResolved(repositories, r)
            /\ \A i \in dels :
                  /\ log[i].route = "manifests" /\ log[i].name = r
                  /\ log[i].ref \in TagDigests(repositories, r)
            /\ \A i, j \in dels : log[i].ref = log[j].ref => i = j
            /\ result.exc = "none" =>
                  /\ {log[i].ref : i \in dels} = TagDigests(repositories, r)
                  /\ \A i \in dels : log[i].status = 202

\* C8 witness: deleting app, whose tags v1 and v2 are both at sha256:abc, sent
\* exactly one DELETE /v2/app/manifests/sha256:abc.
C8_Witness ==
    /\ result.op = "Repository.delete" /\ result.exc = "none"
    /\ result.args = <<"app">>
    /\ DOMAIN TagsOf(repositories, "app")[1].map = {"v1", "v2"}
    /\ Cardinality(Deletes(log)) = 1
    /\ \A i \in Deletes(log) : log[i].ref = "sha256:abc" /\ log[i].name = "app"

\* C9: when a manifest DELETE of Repository.delete fails, the caller gets the
\* failure, the failing DELETE is the last request of the operation and nothing
\* but DELETEs follows the first DELETE; and no step of Repository.delete puts a
\* manifest back: each takes from the registry exactly the manifest whose DELETE
\* was accepted in it, so what was deleted before the failure stays deleted
\* unless another client pushes it again.
C9_DeleteAbortsNoRollback ==
    [][/\ DeleteStep =>
            /\ StepDeletes \subseteq rman
            /\ rman' = rman \ StepDeletes
            /\ rblobs' = rblobs /\ rcat' = rcat
            /\ \A r \in Repos, t \in TagNames :
                  rtags'[r][t] \in {rtags[r][t], None}
       /\ (Stepped /\ result'.op = "Repository.delete"
             /\ \E i \in Deletes(log') : log'[i].status /= 202) =>
            /\ Failed(result')
            /\ \A i \in Deletes(log') : log'[i].status /= 202 => i = Len(log')
            /\ \A i \in Deletes(log'), j \in 1..Len(log') :
                  j > i => (IsReq(log'[j]) /\ log'[j].method = "DELETE")]_vars

\* C9 witness: one manifest of the repository was deleted, the DELETE of the next
\* one failed and ended the operation.
C9_Witness ==
    /\ result.op = "Repository.delete" /\ result.exc = "HTTPError"
    /\ \E i \in Deletes(log) :
          /\ log[i].status = 202 /\ i + 1 = Len(log)
          /\ log[i + 1].method = "DELETE" /\ log[i + 1].status /= 202
          /\ log[i + 1].ref /= log[i].ref
          /\ <<log[i].name, log[i].ref>> \notin rman
          /\ <<log[i + 1].name, log[i + 1].ref>> \in rman

\* C10: Registry.get and Repository.get never raise for a missing key: they
\* return the cached child for a key of the mapping and the default otherwise,
\* with no I/O when the mapping was resolved and at most the one catalog (tag
\* list) client call that resolves it, with the token renewal that call may need,
\* when it was not.
C10_GetReturnsDefault ==
    [][(Stepped /\ result'.op \in {"Registry.get", "Repository.get"}) =>
        LET isReg == result'.op = "Registry.get"
            key == result'.args[Len(result'.args)]
            was == IF isReg THEN repositories ELSE TagsOf(repositories, result'.args[1])
            now == IF isReg THEN repositories' ELSE TagsOf(repositories', result'.args[1])
            keys == {now[1].keys[i] : i \in 1..Len(now[1].keys)}
        IN  /\ result'.exc /= "KeyError"
            /\ was /= None => (log' = <<>> /\ result'.exc = "none")
            /\ Cardinality(CallEnds(log')) <= 1
            /\ ReqCount(log') <= 1
            /\ \A i \in 1..Len(log') : IsReq(log'[i]) =>
                  IF isReg THEN log'[i].route = "/v2/_catalog"
                  ELSE log'[i].route = "tags/list" /\ log'[i].name = result'.args[1]
            /\ result'.exc = "none" =>
                  /\ now /= None
                  /\ result'.val = (IF key \in keys THEN ChildRef(now[1], key) ELSE Default)]_vars

\* C10 witness: Registry.get of a key the resolved mapping lacks returned the
\* default with no I/O.
C10_Witness ==
    /\ result.op = "Registry.get" /\ result.exc = "none"
    /\ result.val = Default
    /\ log = <<>>
    /\ repositories /= None
    /\ result.args[1] \notin DOMAIN repositories[1].repos

DeleteOps == {"Manifest.delete", "Tag.delete", "Repository.delete"}

\* C11: Manifest.delete, Tag.delete and Repository.delete, succeeding or failing,
\* leave every cache entry that was resolved before the call present and with the
\* same value: the repository mapping, each tag mapping, each tag's Manifest with
\* its content and age, and the caller's own Manifest.
C11_DeleteKeepsCaches ==
    [][(Stepped /\ result'.op \in DeleteOps) =>
        /\ repositories /= None =>
             /\ repositories' /= None
             /\ repositories'[1].id = repositories[1].id
             /\ repositories'[1].keys = repositories[1].keys
             /\ DOMAIN repositories'[1].repos = DOMAIN repositories[1].repos
             /\ \A r \in DOMAIN repositories[1].repos :
                  TagsOf(repositories, r) /= None =>
                    /\ TagsOf(repositories', r) /= None
                    /\ TagsOf(repositories', r)[1].id = TagsOf(repositories, r)[1].id
                    /\ TagsOf(repositories', r)[1].keys = TagsOf(repositories, r)[1].keys
                    /\ \A t \in DOMAIN TagsOf(repositories, r)[1].map :
                         /\ t \in DOMAIN TagsOf(repositories', r)[1].map
                         /\ ManOf(repositories, r, t) /= None =>
                              ManOf(repositories', r, t) = ManOf(repositories, r, t)
        /\ loose' = loose]_vars

\* C11 witness: a Manifest.delete of a tag's cached Manifest succeeded, and the
\* tag still holds that Manifest although the registry no longer stores it.
C11_Witness ==
    /\ result.op = "Manifest.delete" /\ result.exc = "none"
    /\ result.args[1] = "tag"
    /\ ManOf(repositories, result.args[2], result.args[3]) /= None
    /\ <<result.args[2], ManOf(repositories, result.args[2], result.args[3])[1].digest>>
          \notin rman
    /\ \E i \in Deletes(log) : log[i].status = 202

\* The requests of a log that failed: no reply, or a status that is no success.
FailedReqs(l) == {i \in 1..Len(l) : IsReq(l[i]) /\ l[i].status \notin {200, 202}}

\* C12: whenever a request of a client operation fails (no reply, or a reply
\* whose status is no success), the caller gets the error and the client's session
\* has been closed by then.
C12_ClosedOnFailure ==
    FailedReqs(log) /= {} => (Failed(result) /\ closed)

\* The renewals of a log that failed.
FailedRenewals(l) == {i \in 1..Len(l) : IsRenew(l[i]) /\ l[i].status /= 200}

\* C13: whenever a call made on behalf of an operation fails, be it an accessor
\* or delete of the entity model or the construction of a client by
\* BaseClient(api_version=None) with its GET /v2/ probe, the operation ends in an
\* error for its caller and returns no normal result.
C13_NoErrorSuppressed ==
    (FailedReqs(log) /= {} \/ FailedRenewals(log) /= {}) => result.exc /= "none"

\* The part of C13 about the entity model alone.
C13_EntityModelPropagates ==
    (result.op /= "BaseClient" /\ (FailedReqs(log) /= {} \/ FailedRenewals(log) /= {}))
        => Failed(result)

\* C14: against a registry that answers 404 to GET /v2/, constructing a client
\* with API-version auto-detection raises the not-supported error and returns no
\* client, and so does constructing the Registry object.
C14_NotSupportedIsFatal ==
    /\ (result.op = "BaseClient" /\ result.args = <<None>>
          /\ \E i \in FailedReqs(log) : log[i].status = 404)
         => (result.exc = "NotImplementedError" /\ result.val = None)
    /\ (result.op = "Registry" /\ ~v2) => result.exc = "NotImplementedError"

\* The part of C14 about the low-level client alone.
C14_FactoryNotSupported ==
    (result.op = "BaseClient" /\ result.args = <<None>>
       /\ \E i \in FailedReqs(log) : log[i].status = 404)
      => (result.exc = "NotImplementedError" /\ result.val = None)

\* The most client calls a caller operation can make.
MaxCalls(op) ==
    IF op \in {"init", "push", "Manifest"} THEN 0
    ELSE IF op \in {"Tag.delete", "Manifest.age"} THEN 2
    ELSE IF op = "Repository.manifests" THEN 1 + MaxTags
    ELSE IF op = "Repository.delete" THEN 1 + 2 * MaxTags
    ELSE 1
RenewCount(l) == Cardinality({i \in 1..Len(l) : IsRenew(l[i])})

\* C15: a failed token renewal ends the operation with the authentication error:
\* it is the one renewal attempt of its client call, nothing is sent after it,
\* and the token held before stays; every client call makes at most one renewal
\* attempt and at most one request, and without token auth none is made at all.
C15_RenewalFailureFatal ==
    /\ ReqCount(log) + Cardinality(FailedRenewals(log)) <= MaxCalls(result.op)
    /\ RenewCount(log) <= MaxCalls(result.op)
    /\ \A i \in CallEnds(log) : RenewalsOf(log, i) <= 1
    /\ ~token_required => RenewCount(log) = 0
    /\ FailedRenewals(log) /= {} =>
         /\ result.exc = "AuthError"
         /\ FailedRenewals(log) = {Len(log)}
         /\ RenewalsOf(log, Len(log)) = 1
    /\ result.exc = "AuthError" => FailedRenewals(log) /= {}

\* C15 witness: listing the tags of app needed a repository token; its renewal
\* failed, no request followed and the catalog token is still the one held.
C15_Witness ==
    /\ token_required
    /\ result.op = "Repository.tags" /\ result.exc = "AuthError"
    /\ Len(log) = 1 /\ IsRenew(log[1]) /\ log[1].status /= 200
    /\ log[1].scope = RepoScope("app")
    /\ token = Some(CATALOG_SCOPE)

\* C16: the Manifest a tag caches when Tag.manifest resolves it (directly, or in
\* Tag.delete, Repository.manifests or Repository.delete) has the digest of the
\* Docker-Content-Digest header the registry served for that tag and the content
\* served with it, whether or not that content hashes to the header; and every
\* DELETE of Tag.delete and Manifest.delete names exactly the cached digest.
C16_DigestFromHeader ==
    [][Stepped =>
        /\ \A r \in Repos, t \in TagNames :
             (/\ HasTag(repositories, r, t) /\ ManOf(repositories, r, t) = None
              /\ ManOf(repositories', r, t) /= None) =>
                LET m == ManOf(repositories', r, t)[1]
                IN  /\ result'.op \in {"Tag.manifest", "Tag.delete",
                                      "Repository.manifests", "Repository.delete"}
                    /\ Cardinality(ManifestGets(log', r, t)) = 1
                    /\ \A j \in ManifestGets(log', r, t) :
                          /\ log'[j].status = 200
                          /\ log'[j].digest /= None
                          /\ m.digest = log'[j].digest[1]
                          /\ m.content = Some(BodyOf(log'[j].digest[1]))
        /\ result'.op = "Tag.delete" =>
             \A i \in Deletes(log') :
                /\ log'[i].name = result'.args[1]
                /\ log'[i].ref = ManOf(repositories', result'.args[1], result'.args[2])[1].digest
        /\ result'.op = "Manifest.delete" =>
             \A i \in Deletes(log') :
                LET m == IF result'.args[1] = "loose" THEN loose[1]
                         ELSE ManOf(repositories, result'.args[2], result'.args[3])[1]
                IN  log'[i].name = m.repo /\ log'[i].ref = m.digest]_vars

\* C16 witness: a registry that serves converted manifests; Tag.delete fetched the
\* tag's manifest, cached it under the header digest, which is not the digest of
\* the content, and sent the DELETE for the header digest, which the registry took.
C16_Witness ==
    /\ converts
    /\ result.op = "Tag.delete" /\ result.exc = "none"
    /\ LET m == ManOf(repositories, result.args[1], result.args[2])[1]
       IN  /\ m.content = Some(ConvertedOf(m.digest))
           /\ DigestOfContent(m.content) /= m.digest
           /\ Len(log) >= 2
           /\ log[Len(log) - 1].method = "GET" /\ log[Len(log) - 1].ref = result.args[2]
           /\ log[Len(log)].method = "DELETE" /\ log[Len(log)].ref = m.digest
           /\ log[Len(log)].status = 202

\* C19: Repository.delete sends every GET it needs (the tag list when unresolved,
\* the manifest of every unresolved tag) and fills those caches before its first
\* DELETE, so when the tag list or a manifest fetch fails it has sent no DELETE
\* and none of its steps has changed anything in the registry (another client's
\* pushes between its requests are all that differs); Tag.delete on an
\* unresolved tag first fetches and caches the tag's manifest and only then sends
\* its DELETE.
C19_ResolveBeforeDelete ==
    [][/\ (DeleteStep /\ StepDeletes = {}) =>
            <<rcat', rtags', rman', rblobs'>> = <<rcat, rtags, rman, rblobs>>
       /\ Stepped =>
        /\ result'.op = "Repository.delete" =>
             LET r == result'.args[1]
                 dels == Deletes(log')
             IN  /\ \A i \in dels, j \in 1..Len(log') :
                       j > i => (IsReq(log'[j]) /\ log'[j].method = "DELETE")
                 /\ dels /= {} =>
                       /\ AllTagsResolved(repositories', r)
                       /\ TagsOf(repositories, r) = None =>
                            \E j \in 1..Len(log') :
                               /\ IsReq(log'[j]) /\ log'[j].route = "tags/list"
                               /\ log'[j].name = r /\ log'[j].status = 200
                               /\ \A i \in dels : j < i
                       /\ \A t \in DOMAIN TagsOf(repositories', r)[1].map :
                            (TagsOf(repositories, r) = None \/ ManOf(repositories, r, t) = None)
                              => \E j \in ManifestGets(log', r, t) :
                                    log'[j].status = 200 /\ \A i \in dels : j < i
                 /\ (\E j \in 1..Len(log') :
                        /\ log'[j].status \notin {200, 202}
                        /\ ~(IsReq(log'[j]) /\ log'[j].method = "DELETE")) =>
                       /\ dels = {}
                       /\ Failed(result')
                       /\ <<rcat', rtags', rman', rblobs'>> = <<rcat, rtags, rman, rblobs>>
        /\ (result'.op = "Tag.delete"
              /\ ManOf(repositories, result'.args[1], result'.args[2]) = None) =>
             LET r == result'.args[1]
                 t == result'.args[2]
                 now == ManOf(repositories', r, t)
             IN  /\ \A i \in Deletes(log') :
                       /\ \E j \in ManifestGets(log', r, t) : j < i /\ log'[j].status = 200
                       /\ now /= None /\ log'[i].ref = now[1].digest
                 /\ now = None => (Deletes(log') = {} /\ Failed(result'))
                 /\ (now /= None /\ ~Failed(result')) => Deletes(log') /= {}]_vars

\* C19 witness: Repository.delete resolved the tag list and the manifest of one
\* tag, the fetch of the next tag's manifest failed, and no DELETE was sent: the
\* resolved manifest is cached and still stored by the registry.
C19_Witness ==
    /\ result.op = "Repository.delete" /\ Failed(result)
    /\ Deletes(log) = {}
    /\ ManifestGets(log, "app", "v1") /= {}
    /\ ManifestGets(log, "app", "v2") /= {}
    /\ log[Len(log)].status \notin {200, 202}
    /\ ManOf(repositories, "app", "v1") /= None
    /\ ManOf(repositories, "app", "v2") = None
    /\ <<"app", ManOf(repositories, "app", "v1")[1].digest>> \in rman

\* A thread whose request has been sent, and one whose request carried a bearer
\* token issued for another scope than its operation needs.
Sent(t) == pc[t] \in {"assign", "return", "done"} /\ frame[t].rsp /= NoReply
WrongBearer(t) ==
    token_required /\ Sent(t) /\ frame[t].bearer /= Some(OpScope(frame[t].op))
Other(t) == CHOOSE u \in Threads : u /= t

\* C17: with token auth required and two threads calling through one client, a
\* request carries a bearer token issued for another scope than its operation needs
\* only when the other thread wrote the shared desired scope or token between
\* this thread's setting its scope and its sending; the registry then refuses the
\* request, and a thread nobody interfered with always sends the right token.
C17_WrongBearerOnlyByRace ==
    \A t \in Threads :
        /\ WrongBearer(t) =>
             /\ frame[t].disturbed
             /\ pc[Other(t)] /= "idle"
             /\ frame[t].rsp.status = 401 /\ frame[t].exc = "HTTPError"
        /\ (Sent(t) /\ ~token_required) => frame[t].bearer = None
        /\ (Sent(t) /\ token_required /\ ~frame[t].disturbed) =>
             frame[t].bearer = Some(OpScope(frame[t].op))

\* C17 witness: thread 1 listed the tags of app while thread 2 listed the tags of
\* lib; the request of thread 1 went out with the token issued for lib.
C17_Witness ==
    /\ token_required
    /\ frame[1].op = <<"Repository.tags", "app">>
    /\ frame[2].op = <<"Repository.tags", "lib">>
    /\ Sent(1)
    /\ frame[1].bearer = Some(RepoScope("lib"))
    /\ frame[1].rsp.status = 401
    /\ \E i \in 1..Len(log) : /\ IsReq(log[i]) /\ log[i].name = "app"
                              /\ log[i].bearer = Some(RepoScope("lib"))

\* The store ordinal of an object: the n-th object stored into its field.
Ord(id) == id[Len(id)]
\* The populating requests sent for the field of accessor op.
PopulatingReqs(op) ==
    {i \in 1..Len(log) : /\ IsReq(log[i]) /\ log[i].route = OpRoute(op)
                         /\ log[i].name = OpName(op) /\ log[i].ref = OpRef(op)}
Returned(t) == pc[t] = "done" /\ frame[t].exc = "none"

\* C18: a thread that finds the field resolved sends nothing, stores nothing and
\* returns the cached object; a thread that finds it unresolved populates it, so
\* two threads that both find it unresolved both send the populating call and
\* store twice, the second store replacing the first object; each thread returns
\* the object in the field at its return, its own or the one stored over it; two
\* threads get different objects only in that case, and with one thread alone the
\* field is stored at most once.
C18_LazyInitRace ==
    /\ \A t \in Threads :
        /\ (pc[t] /= "idle" /\ frame[t].found) =>
             /\ frame[t].rsp = NoReply /\ frame[t].made = None
             /\ Returned(t) => frame[t].val = Some(LazyField(frame[t].op)[1].id)
        /\ (pc[t] \in {"return", "done"} /\ ~frame[t].found /\ frame[t].exc = "none") =>
             /\ frame[t].made /= None
             /\ Sent(t)
        /\ (Returned(t) /\ frame[t].made /= None) =>
             Ord(frame[t].val[1]) >= Ord(frame[t].made[1])
        /\ frame[t].made /= None =>
             /\ Ord(frame[t].made[1]) <= Cardinality(Threads)
             /\ pc[Other(t)] = "idle" => Ord(frame[t].made[1]) = 1
             /\ Ord(LazyField(frame[t].op)[1].id) >= Ord(frame[t].made[1])
    /\ \A t, u \in Threads :
        (t /= u /\ Returned(t) /\ Returned(u) /\ frame[t].op = frame[u].op) =>
           /\ (frame[t].made /= None /\ frame[u].made /= None) =>
                 /\ frame[t].made /= frame[u].made
                 /\ Ord(LazyField(frame[t].op)[1].id) = 2
                 /\ Cardinality(PopulatingReqs(frame[t].op)) = 2
           /\ frame[t].val /= frame[u].val =>
                 (frame[t].made /= None /\ frame[u].made /= None)

\* C18 witness: both threads accessed Registry.repositories for the first time,
\* both sent the catalog call, the field was stored twice and the two threads
\* returned different mapping objects.
C18_Witness ==
    /\ \A t \in Threads : Returned(t) /\ frame[t].op = <<"Registry.repositories">>
    /\ Cardinality(PopulatingReqs(<<"Registry.repositories">>)) = 2
    /\ frame[1].val = Some(<<"repositories", 1>>)
    /\ frame[2].val = Some(<<"repositories", 2>>)
    /\ repositories[1].id = <<"repositories", 2>>

====
